---- MODULE Spec2Model ----
(***************************************************************************)
(* Request-processing middleware of the NSFW classification service:       *)
(* API-key store and auth gate (library/security.py, APISecurity), rate    *)
(* limiter (RateLimiter), route validator (RouteValidator, schemaCheck)    *)
(* and the classify handler (apis/nsfw_detection.py).                      *)
(*                                                                         *)
(* Time is counted in whole seconds.  Every request is a thread of the     *)
(* server; a step of the model is the stretch of code a thread runs        *)
(* between two points where another thread, the clock or another process   *)
(* (key generation and revocation run from the command line against the    *)
(* same database) can be observed to interleave.                           *)
(***************************************************************************)
EXTENDS Integers, Sequences, FiniteSets, TLC

\* ---------------------------------------------------------------- bounds
MaxTime == 6        \* the clock runs from 1 to MaxTime
MaxKeys == 1        \* API key values 1..MaxKeys
MaxLimKeys == 2     \* limiting keys (ratelimitKey values, remote addresses)
MaxContent == 3     \* distinct media byte strings 1..MaxContent

\* ------------------------------------------------------ program constants
refreshRate == 5    \* APISecurity.refreshRate, seconds
count == 2          \* @server.limiter.limit(2, key="ratelimitKey")

None == -1          \* Python None where a time is expected
NoKey == 0          \* data.pop("__key__", None) gave None or a falsy value
NoField == 0        \* request.json["ratelimitKey"] raises KeyError
BadBase64 == 0      \* a "bytes" string base64.b64decode raises on
Unhashable == -2    \* a "ratelimitKey" that is a JSON array or object

KeyIds == 1..MaxKeys
Forged == MaxKeys + 1   \* a key string generateKey never returns
Reqs == {1, 2}        \* two request threads
LimKeys == 1..MaxLimKeys
Contents == 1..MaxContent

VARIABLES
    now,            \* time.time()
    dbKeys,         \* db.keys: set of documents [key, active, created], each
                    \* with the history flag revoked: revokeKey returned for it
    keys,           \* APISecurity.keys: the cached documents
    lastRefresh,    \* APISecurity.lastRefresh
    keysFrom,       \* history: the request whose database read the cache holds
    requests,       \* RateLimiter.requests: limiting key -> time of last request
    files,          \* the paths that exist on disk
    classified_nsfw,\* db.classified_nsfw: set of result documents
    rq              \* per request thread: position, body and locals

keyVars == <<dbKeys, keys, lastRefresh, keysFrom>>
clsVars == <<files, classified_nsfw>>
vars == <<now, dbKeys, keys, lastRefresh, keysFrom, requests,
          files, classified_nsfw, rq>>

\* ------------------------------------------------------------ request body
\* fields: the names present in request.json (empty: request.json is None
\* or {}).  key: the value of "__key__", NoKey when it is missing or falsy.
\* ratelimitKey: its value, NoField when missing.  remote: request.remote_addr.
\* bytes, contentType: the values of those entries when present.  The JSON
\* value of "ratelimitKey" is any JSON value: Unhashable stands for the
\* arrays and objects, which Python cannot use as a dict key.
FieldNames == {"__key__", "bytes", "contentType", "ratelimitKey", "other"}
ContentTypes == {"image/png", "image/gif", "video/mp4", "video/webm", "Video/MP4"}

Bodies ==
    {b \in [fields : SUBSET FieldNames, key : {NoKey, Forged} \cup KeyIds,
            ratelimitKey : {NoField, Unhashable} \cup LimKeys, remote : LimKeys,
            bytes : {BadBase64} \cup Contents, contentType : ContentTypes \cup {""}] :
        /\ ("__key__" \notin b.fields) => (b.key = NoKey)
        /\ ("ratelimitKey" \in b.fields) <=> (b.ratelimitKey # NoField)
        /\ ("bytes" \notin b.fields) => (b.bytes = BadBase64)
        /\ ("contentType" \in b.fields) <=> (b.contentType # "")}

NoBody ==
    [fields |-> {}, key |-> NoKey, ratelimitKey |-> NoField, remote |-> 1,
     bytes |-> BadBase64, contentType |-> ""]

\* Bodies that differ in the credential only: none, an empty one, the first
\* key generated, or a key that was never generated.
KeyBodies ==
    {b \in Bodies : /\ b.fields \in {{}, {"bytes", "contentType"},
                                     {"__key__", "bytes", "contentType"}}
                    /\ b.key \in {NoKey, 1, Forged}
                    /\ b.remote = 1
                    /\ b.fields # {} => (b.bytes = 1 /\ b.contentType = "image/png")}

\* Authenticated bodies that differ in what the limiter reads.
LimBodies ==
    {b \in Bodies : /\ b.fields \ {"ratelimitKey"} = {"bytes", "contentType"}
                    /\ b.key = NoKey
                    /\ b.bytes = 1 /\ b.contentType = "image/png"}

\* Bodies that have passed the schema check and differ in the media only.
ClsBodies ==
    {b \in Bodies : /\ b.fields = {"bytes", "contentType"}
                    /\ b.key = NoKey /\ b.remote = 1}

\* A path names the request whose temporary file it is (tempfile draws a
\* fresh name per call) and carries the file's extension.
NoPath == [req |-> 0, ext |-> ""]
NoHash == [alg |-> "", digest |-> 0]
NoData == [preds |-> 0, normalized |-> FALSE]
NoRecord == [hash |-> NoHash, contentType |-> "", path |-> NoPath, data |-> NoData]

\* The route classify() is registered under, and a second route wrapped by
\* its own limit(2, key="ratelimitKey") call on the same RateLimiter.
ClassifyRoute == "/nsfw_detection/classify"
Routes == {ClassifyRoute, "/second"}

IdleReq ==
    [pc |-> "idle", route |-> ClassifyRoute, body |-> NoBody, status |-> 0,
     stages |-> <<>>,
     aged |-> FALSE, refreshed |-> "", readSeq |-> 0, snap |-> {},
     valid |-> FALSE, afterRevoke |-> FALSE,
     key_ |-> NoField, prevRequest |-> None, arrivedAt |-> None,
     after |-> {}, method |-> "", suffix |-> "", path |-> NoPath,
     oldPath |-> NoPath, contentType |-> "", contentHash |-> NoHash,
     made |-> {}, cacheRead |-> FALSE, fromHash |-> FALSE, calls |-> <<>>,
     res |-> NoData, failedAt |-> "", raised |-> "", msg |-> "",
     response |-> NoRecord]

Init ==
    /\ now = 1
    /\ dbKeys = {}
    /\ keys = {}
    /\ lastRefresh = None
    /\ keysFrom = {}
    /\ requests = [k \in LimKeys |-> None]
    /\ files = {}
    /\ classified_nsfw = {}
    /\ rq = [r \in Reqs |-> IdleReq]

\* ------------------------------------------------------------------ clock
Tick ==
    /\ now < MaxTime
    /\ now' = now + 1
    /\ UNCHANGED <<keyVars, requests, clsVars, rq>>

\* ------------------------------------------------------------- key store
ActiveDocs(db) == {d \in db : d.active}

\* generateId draws keyLength characters at random; a repeated draw of an
\* existing key is not modelled.  Keys are interchangeable: they are
\* numbered in the order in which they are generated.
generateKey(k) ==
    /\ \A d \in dbKeys : d.key # k
    /\ \A j \in KeyIds : j < k => \E d \in dbKeys : d.key = j
    /\ dbKeys' = dbKeys \cup {[key |-> k, active |-> TRUE, created |-> now,
                                revoked |-> FALSE]}
    /\ UNCHANGED <<now, keys, lastRefresh, keysFrom, requests, clsVars, rq>>

\* The flag revokeKey writes: update_one(..., {"$set": {"active": True}}).
\* The history flag of the document travels with it into every snapshot
\* read after revokeKey returned.
RevokedFlag == TRUE

revokeKey(k) ==
    /\ \E d \in dbKeys : d.key = k /\ d.active      \* else ValueError
    /\ dbKeys' = {IF d.key = k
                  THEN [d EXCEPT !.active = RevokedFlag, !.revoked = TRUE]
                  ELSE d : d \in dbKeys}
    /\ UNCHANGED <<now, keys, lastRefresh, keysFrom, requests, clsVars, rq>>

\* -------------------------------------------------------------- auth gate
\* Request threads are interchangeable: they are numbered in the order in
\* which their requests arrive.
Arrive(r, b) ==
    /\ rq[r].pc = "idle"
    /\ \A q \in Reqs : q < r => rq[q].pc # "idle"
    /\ rq' = [rq EXCEPT ![r].pc = "auth", ![r].body = b,
                         ![r].after = {q \in Reqs : rq[q].pc = "done"}]
    /\ UNCHANGED <<now, keyVars, requests, clsVars>>

Respond(q, code) == [q EXCEPT !.pc = "done", !.status = code]

\* History: the key presented belongs to an active document generated at
\* least refreshRate seconds before validateKey is called.
Aged(k) == \E d \in dbKeys : d.key = k /\ d.active /\ (now - d.created) >= refreshRate

\* A gate that reads the key with data.get and leaves the body as it is.
beforeRequestKeepKey(r) ==
    /\ rq[r].pc = "auth"
    /\ LET q == [rq[r] EXCEPT !.stages = Append(@, "auth")]
       IN  rq' = [rq EXCEPT ![r] =
                    IF q.body.fields = {}
                    THEN Respond(q, 401)
                    ELSE IF q.body.key # NoKey
                         THEN [q EXCEPT !.pc = "refreshKeys",
                                        !.aged = Aged(q.body.key)]
                         ELSE Respond(q, 401)]
    /\ UNCHANGED <<now, keyVars, requests, clsVars>>

\* beforeRequest up to the call of validateKey; data.pop removes "__key__"
\* from the body every later stage reads.
beforeRequest(r) ==
    /\ rq[r].pc = "auth"
    /\ LET q == [rq[r] EXCEPT !.stages = Append(@, "auth")]
       IN  rq' = [rq EXCEPT ![r] =
                    IF q.body.fields = {}
                    THEN Respond(q, 401)
                    ELSE LET p == [q EXCEPT !.body.fields = @ \ {"__key__"}]
                         IN  IF p.body.key # NoKey
                             THEN [p EXCEPT !.pc = "refreshKeys",
                                            !.aged = Aged(p.body.key)]
                             ELSE Respond(p, 401)]
    /\ UNCHANGED <<now, keyVars, requests, clsVars>>

\* A refresh that waits for more than refreshRate seconds.
RefreshDueLate == lastRefresh = None \/ (now - lastRefresh) > refreshRate

\* History: the database reads refreshKeys calls have made so far.
Reads == {q \in Reqs : rq[q].refreshed = "read"}

\* refreshKeys: the early return, or the database read.  refreshed is
\* history: which of the two this call took; readSeq numbers the reads in
\* the order in which the database served them.
RefreshDue == lastRefresh = None \/ (now - lastRefresh) >= refreshRate

refreshKeys(r) ==
    /\ rq[r].pc = "refreshKeys"
    /\ rq' = [rq EXCEPT ![r] =
                IF RefreshDue
                THEN [@ EXCEPT !.pc = "storeKeys", !.refreshed = "read",
                               !.readSeq = Cardinality(Reads) + 1,
                               !.snap = ActiveDocs(dbKeys)]
                ELSE [@ EXCEPT !.pc = "validateKey", !.refreshed = "skipped"]]
    /\ UNCHANGED <<now, keyVars, requests, clsVars>>

\* self.keys = list(...); snap stays behind as history of what was read,
\* without the history flags of its documents.
storeKeys(r) ==
    /\ rq[r].pc = "storeKeys"
    /\ keys' = rq[r].snap
    /\ keysFrom' = {r}
    /\ rq' = [rq EXCEPT ![r].pc = "stampRefresh",
                         ![r].snap = {[d EXCEPT !.revoked = FALSE] : d \in @}]
    /\ UNCHANGED <<now, dbKeys, lastRefresh, requests, clsVars>>

\* self.lastRefresh = time.time()
stampRefresh(r) ==
    /\ rq[r].pc = "stampRefresh"
    /\ lastRefresh' = now
    /\ rq' = [rq EXCEPT ![r].pc = "validateKey"]
    /\ UNCHANGED <<now, dbKeys, keys, keysFrom, requests, clsVars>>

\* A lookup that accepts every key once the cache holds one.
QueriedAny(k) == keys

\* validateKey after refreshKeys, and beforeRequest's use of its result.
Queried(k) == {x \in keys : x.key = k}

\* A gate that lets the request through whatever validateKey returned.
AdmitAlways(q, ok) == [q EXCEPT !.pc = "limit"]

\* if await self.validateKey(key): return; else the 401 response.
Admit(q, ok) == IF ok THEN [q EXCEPT !.pc = "limit"] ELSE Respond(q, 401)

validateKey(r) ==
    /\ rq[r].pc = "validateKey"
    /\ LET ok == Queried(rq[r].body.key) # {}
           q  == [rq[r] EXCEPT !.valid = ok,
                               !.afterRevoke =
                                   \E x \in keys : x.key = rq[r].body.key /\ x.revoked]
       IN  rq' = [rq EXCEPT ![r] = Admit(q, ok)]
    /\ UNCHANGED <<now, keyVars, requests, clsVars>>

AuthStep(r) ==
    \/ beforeRequest(r)
    \/ refreshKeys(r)
    \/ storeKeys(r)
    \/ stampRefresh(r)
    \/ validateKey(r)

NextKeys ==
    \/ Tick
    \/ \E k \in KeyIds : generateKey(k)
    \/ \E k \in KeyIds : revokeKey(k)
    \/ \E r \in Reqs, b \in KeyBodies : Arrive(r, b)
    \/ \E r \in Reqs : AuthStep(r)

SpecKeys == Init /\ [][NextKeys]_vars

\* ----------------------------------------------------------- rate limiter
\* A request the auth gate has let through (beforeRequest returned None)
\* reaches the limiter's wrapper.
ArriveAuthenticated(r, b) ==
    /\ rq[r].pc = "idle"
    /\ \A q \in Reqs : q < r => rq[q].pc # "idle"
    /\ rq' = [rq EXCEPT ![r].pc = "limit", ![r].body = b,
                         ![r].stages = <<"auth">>,
                         ![r].after = {q \in Reqs : rq[q].pc = "done"}]
    /\ UNCHANGED <<now, keyVars, requests, clsVars>>

\* key="ratelimitKey": request.json[key], and on KeyError self.getKey(),
\* which is getRemoteAddr for RateLimiter().
LimitingKey(b) == IF b.ratelimitKey # NoField THEN b.ratelimitKey ELSE b.remote

\* prevRequest = self.requests.get(key_): dict.get raises TypeError on an
\* unhashable key, outside the try block, and the exception leaves the
\* wrapper.  key_ records the key once the dict has taken it.
limiterRead(r) ==
    /\ rq[r].pc = "limit"
    /\ LET k == LimitingKey(rq[r].body)
           q == [rq[r] EXCEPT !.stages = Append(@, "limiter"), !.arrivedAt = now]
       IN  rq' = [rq EXCEPT ![r] =
                    IF k = Unhashable
                    THEN [Respond(q, 500) EXCEPT !.failedAt = "limiter"]
                    ELSE [q EXCEPT !.pc = "limitWrite", !.key_ = k,
                                   !.prevRequest = requests[k]]]
    /\ UNCHANGED <<now, keyVars, requests, clsVars>>

\* self.requests[key_] = time.time()
limiterWrite(r) ==
    /\ rq[r].pc = "limitWrite"
    /\ requests' = [requests EXCEPT ![rq[r].key_] = now]
    /\ rq' = [rq EXCEPT ![r].pc = "limitCheck"]
    /\ UNCHANGED <<now, keyVars, clsVars>>

\* if prevRequest: if (time.time() - prevRequest) < (1 / count)
TooSoon(prev, t) == prev # None /\ prev # 0 /\ (t - prev) * count < 1

\* A limiter that calls the wrapped function before it answers 429.
limiterCheckLate(r) ==
    /\ rq[r].pc = "limitCheck"
    /\ rq' = [rq EXCEPT ![r] =
                IF TooSoon(rq[r].prevRequest, now)
                THEN [@ EXCEPT !.pc = "validate", !.status = 429]
                ELSE [@ EXCEPT !.pc = "validate"]]
    /\ UNCHANGED <<now, keyVars, requests, clsVars>>

limiterCheck(r) ==
    /\ rq[r].pc = "limitCheck"
    /\ rq' = [rq EXCEPT ![r] =
                IF TooSoon(rq[r].prevRequest, now)
                THEN Respond(@, 429)
                ELSE [@ EXCEPT !.pc = "validate"]]
    /\ UNCHANGED <<now, keyVars, requests, clsVars>>

LimiterStep(r) ==
    \/ limiterRead(r)
    \/ limiterWrite(r)
    \/ limiterCheck(r)

NextLimiter ==
    \/ Tick
    \/ \E r \in Reqs, b \in LimBodies : ArriveAuthenticated(r, b)
    \/ \E r \in Reqs : LimiterStep(r)

SpecLimiter == Init /\ [][NextLimiter]_vars

\* Two routes, each wrapped by its own limit() call of the one RateLimiter:
\* every wrapper closes over the same self and so over the same
\* self.requests dict.
RouteBodies == {b \in LimBodies : b.remote = 1}

ArriveRoute(r, b, rt) ==
    /\ rq[r].pc = "idle"
    /\ \A q \in Reqs : q < r => rq[q].pc # "idle"
    /\ rq' = [rq EXCEPT ![r].pc = "limit", ![r].route = rt, ![r].body = b,
                         ![r].stages = <<"auth">>,
                         ![r].after = {q \in Reqs : rq[q].pc = "done"}]
    /\ UNCHANGED <<now, keyVars, requests, clsVars>>

NextRoutes ==
    \/ Tick
    \/ \E r \in Reqs, b \in RouteBodies, rt \in Routes : ArriveRoute(r, b, rt)
    \/ \E r \in Reqs : LimiterStep(r)

SpecRoutes == Init /\ [][NextRoutes]_vars

\* -------------------------------------------------------- route validator
\* NSFW_DETECTION_CLASSIFY: a Schema over a dict rejects a missing required
\* key and a key it does not name; Use(str) accepts every value.
Required == {"bytes", "contentType"}
Optional == {"ratelimitKey"}

\* A schema that ignores the keys it does not name.
schemaCheckIgnoreExtra(fields) == Required \subseteq fields

schemaCheck(fields) == Required \subseteq fields /\ fields \subseteq (Required \cup Optional)

validate(r) ==
    /\ rq[r].pc = "validate"
    /\ LET q == [rq[r] EXCEPT !.stages = Append(@, "validator")]
       IN  rq' = [rq EXCEPT ![r] =
                    IF schemaCheck(q.body.fields)
                    THEN [q EXCEPT !.pc = "handler"]
                    ELSE Respond(q, 400)]
    /\ UNCHANGED <<now, keyVars, requests, clsVars>>

\* --------------------------------------------------------- classify handler
\* A request that has passed the gate, the limiter and the schema check
\* reaches classify().
ArriveValidated(r, b) ==
    /\ rq[r].pc = "idle"
    /\ \A q \in Reqs : q < r => rq[q].pc # "idle"
    /\ rq' = [rq EXCEPT ![r].pc = "handler", ![r].body = b,
                         ![r].stages = <<"auth", "limiter", "validator">>,
                         ![r].after = {q \in Reqs : rq[q].pc = "done"}]
    /\ UNCHANGED <<now, keyVars, requests, clsVars>>

\* str.lower() and str.startswith("video/") on the content types modelled.
Lower(ct) == IF ct = "Video/MP4" THEN "video/mp4" ELSE ct
StartsWithVideo(ct) == ct \in {"video/mp4", "video/webm"}

\* mappings.get(contentType.lower(), ".mp4")
Mappings(ct) == IF ct = "video/webm" THEN ".webm" ELSE ".mp4"

Suffix(ct) ==
    IF Lower(ct) = "image/gif" THEN ".gif"
    ELSE IF StartsWithVideo(Lower(ct)) THEN Mappings(Lower(ct))
    ELSE ""

Method(ct) == IF StartsWithVideo(ct) THEN "vid" ELSE "img"

\* imagehash.average_hash / VideoHash(...).hash_hex: a function of the
\* decoded media, equal for some distinct byte strings (perceptual hash).
HashOf(method, b) == [alg |-> method, digest |-> (b + 1) \div 2]

\* An exception that leaves classify(): Flask answers 500.
Raise(q, stage) == [Respond(q, 500) EXCEPT !.failedAt = stage]

\* Lines 58-87: decode, choose method and suffix, create the temporary
\* file and write the bytes.  written = FALSE: tmp.write raises.
stage(r, written) ==
    /\ rq[r].pc = "handler"
    /\ LET b == rq[r].body
           q == [rq[r] EXCEPT !.stages = Append(@, "handler")]
           p == [req |-> r, ext |-> Suffix(b.contentType)]
       IN  IF b.bytes = BadBase64
           THEN /\ written
                /\ rq' = [rq EXCEPT ![r] = Raise(q, "decode")]
                /\ files' = files
           ELSE /\ files' = files \cup {p}
                /\ rq' = [rq EXCEPT ![r] =
                     LET s == [q EXCEPT !.method = Method(b.contentType),
                                        !.suffix = Suffix(b.contentType),
                                        !.contentType = b.contentType,
                                        !.path = p, !.made = {p}]
                     IN  IF ~written THEN Raise(s, "stage")
                         ELSE [s EXCEPT !.pc = IF s.suffix = ".gif"
                                               THEN "transcode" ELSE "hash"]]
    /\ UNCHANGED <<now, keyVars, requests, classified_nsfw>>

\* A conversion that forgets to update the metadata.
TranscodedStale(q, mp4) ==
    [q EXCEPT !.pc = "hash", !.oldPath = q.path, !.path = mp4, !.method = "vid"]

\* Lines 92-104 after ff.run() returned: the paths, method and content type.
Transcoded(q, mp4) ==
    [q EXCEPT !.pc = "hash", !.oldPath = q.path, !.path = mp4,
              !.method = "vid", !.contentType = "video/mp4"]

\* Lines 90-104: ffmpy converts the .gif to .tmp/<name>.mp4.  out: the
\* output file exists afterwards; ok = FALSE: ff.run() raises.
transcode(r, ok, out) ==
    /\ rq[r].pc = "transcode"
    /\ ok => out
    /\ LET mp4 == [req |-> r, ext |-> ".mp4"]
           q   == [rq[r] EXCEPT !.made = IF out THEN @ \cup {mp4} ELSE @]
       IN  /\ files' = IF out THEN files \cup {mp4} ELSE files
           /\ rq' = [rq EXCEPT ![r] =
                IF ok THEN Transcoded(q, mp4) ELSE Raise(q, "transcode")]
    /\ UNCHANGED <<now, keyVars, requests, classified_nsfw>>

\* Lines 109-115: the content hash of the final file.  ok = FALSE:
\* Image.open or VideoHash raises.
hashContent(r, ok) ==
    /\ rq[r].pc = "hash"
    /\ rq' = [rq EXCEPT ![r] =
                IF ok
                THEN [@ EXCEPT !.pc = "findStored",
                               !.contentHash = HashOf(rq[r].method, rq[r].body.bytes)]
                ELSE Raise(@, "hash")]
    /\ UNCHANGED <<now, keyVars, requests, clsVars>>

\* A lookup that never finds a document.
StoredNever(h) == {}

\* find_one({"hash": contentHash}): the documents it can return.
Stored(h) == {d \in classified_nsfw : d.hash = h}

\* Lines 117-124.  ok = FALSE: find_one raises; otherwise find_one returns
\* one of the documents of that hash, or None when there is none.
findStored(r, ok) ==
    /\ rq[r].pc = "findStored"
    /\ \E d \in Stored(rq[r].contentHash) \cup {NoRecord} :
        /\ (d = NoRecord) <=> (~ok \/ Stored(rq[r].contentHash) = {})
        /\ rq' = [rq EXCEPT ![r] =
                    IF ~ok THEN Raise(@, "lookup")
                    ELSE IF d # NoRecord
                    THEN [@ EXCEPT !.pc = "cleanup", !.cacheRead = TRUE,
                                   !.fromHash = TRUE, !.status = 200, !.response = d]
                    ELSE [@ EXCEPT !.pc = "classify", !.cacheRead = TRUE]]
    /\ UNCHANGED <<now, keyVars, requests, clsVars>>

\* str(e) of the exceptions the classifier or insert_one can raise.
Messages == {"cannot identify image file", "out of memory"}

\* Lines 140-147: predictions of a video are rebuilt with float values.
Normalize(ct, b) == [preds |-> b, normalized |-> StartsWithVideo(ct)]

\* A handler that stores a result although the classifier raised.
AfterClassifierInsertAnyway(q, ok) ==
    [q EXCEPT !.pc = "insert", !.res = Normalize(q.contentType, q.body.bytes),
              !.failedAt = IF ok THEN "" ELSE "classify"]

\* A handler without the except branch: the exception leaves classify().
AfterClassifierUncaught(q, ok) ==
    IF ok
    THEN [q EXCEPT !.pc = "insert", !.res = Normalize(q.contentType, q.body.bytes)]
    ELSE Raise(q, "classify")

\* What follows the classifier call: the insert, or the except branch with
\* makeResponse(status=500, msg=str(e)).
AfterClassifier(q, ok) ==
    IF ok
    THEN [q EXCEPT !.pc = "insert", !.res = Normalize(q.contentType, q.body.bytes)]
    ELSE [q EXCEPT !.pc = "cleanup", !.status = 500, !.failedAt = "classify",
                   !.msg = q.raised]

\* Lines 128-148: nudenet.classify / classify_video on path and the
\* normalisation.  ok = FALSE: either raises an exception e, raised = str(e).
invokeClassifier(r, ok) ==
    /\ rq[r].pc = "classify"
    /\ \E e \in Messages :
        LET fn == IF rq[r].method = "img" THEN "classify" ELSE "classify_video"
            q  == [rq[r] EXCEPT !.calls = Append(@, [fn |-> fn, path |-> rq[r].path]),
                                !.raised = IF ok THEN "" ELSE e]
        IN  rq' = [rq EXCEPT ![r] = AfterClassifier(q, ok)]
    /\ UNCHANGED <<now, keyVars, requests, clsVars>>

\* results as built by lines 65, 85, 106, 115 and 148.
Results(q) ==
    [hash |-> q.contentHash, contentType |-> q.contentType,
     path |-> IF q.oldPath # NoPath THEN q.oldPath ELSE q.path, data |-> q.res]

\* An insert that replaces the stored documents of the same hash.
insertResultReplace(r, ok) ==
    /\ rq[r].pc = "insert"
    /\ classified_nsfw' =
         IF ok THEN {d \in classified_nsfw : d.hash # rq[r].contentHash}
                       \cup {Results(rq[r])}
         ELSE classified_nsfw
    /\ rq' = [rq EXCEPT ![r] =
                IF ok
                THEN [@ EXCEPT !.pc = "cleanup", !.status = 200,
                               !.response = Results(rq[r])]
                ELSE [@ EXCEPT !.pc = "cleanup", !.status = 500,
                               !.failedAt = "insert"]]
    /\ UNCHANGED <<now, keyVars, requests, files>>

\* Lines 150-155.  ok = FALSE: insert_one raises an exception e.
insertResult(r, ok) ==
    /\ rq[r].pc = "insert"
    /\ classified_nsfw' = IF ok THEN classified_nsfw \cup {Results(rq[r])}
                          ELSE classified_nsfw
    /\ \E e \in Messages :
        rq' = [rq EXCEPT ![r] =
                IF ok
                THEN [@ EXCEPT !.pc = "cleanup", !.status = 200,
                               !.response = Results(rq[r])]
                ELSE [@ EXCEPT !.pc = "cleanup", !.status = 500,
                               !.failedAt = "insert", !.msg = e]]
    /\ UNCHANGED <<now, keyVars, requests, files>>

\* Lines 158-161: os.unlink(oldPath), os.unlink(path), return response.
cleanup(r) ==
    /\ rq[r].pc = "cleanup"
    /\ files' = files \ {rq[r].oldPath, rq[r].path}
    /\ rq' = [rq EXCEPT ![r].pc = "done"]
    /\ UNCHANGED <<now, keyVars, requests, classified_nsfw>>

HandlerStep(r) ==
    \/ \E written \in BOOLEAN : stage(r, written)
    \/ \E ok, out \in BOOLEAN : transcode(r, ok, out)
    \/ \E ok \in BOOLEAN : hashContent(r, ok)
    \/ \E ok \in BOOLEAN : findStored(r, ok)
    \/ \E ok \in BOOLEAN : invokeClassifier(r, ok)
    \/ \E ok \in BOOLEAN : insertResult(r, ok)
    \/ cleanup(r)

NextClassify ==
    \/ \E r \in Reqs, b \in ClsBodies : ArriveValidated(r, b)
    \/ \E r \in Reqs : HandlerStep(r)

SpecClassify == Init /\ [][NextClassify]_vars

\* ---------------------------------------------------------- whole pipeline
\* before_request, then limiter.limit(validator.validate(classify)), for
\* requests that arrive within one second: the clock stands still here, what
\* depends on its advance and on revocations is the subject of SpecKeys and
\* SpecLimiter.
PipeBodies ==
    {b \in Bodies : /\ b.remote = 1
                    /\ b.key \in {NoKey} \cup KeyIds
                    /\ b.ratelimitKey \in {NoField, 1}
                    /\ b.fields \in {{}, Required} \cup
                           {{"__key__"} \cup x : x \in {{}, {"bytes"}, Required,
                                                        Required \cup {"other"},
                                                        Required \cup {"ratelimitKey"}}}
                    /\ "bytes" \in b.fields => b.bytes = 1
                    /\ b.contentType \in {"", "image/png", "image/gif"}}

Next ==
    \/ \E k \in KeyIds : generateKey(k)
    \/ \E r \in Reqs, b \in PipeBodies : Arrive(r, b)
    \/ \E r \in Reqs : AuthStep(r)
    \/ \E r \in Reqs : LimiterStep(r)
    \/ \E r \in Reqs : validate(r)
    \/ \E r \in Reqs : HandlerStep(r)

Spec == Init /\ [][Next]_vars

\* ------------------------------------------------------------------ claims

StageSet(r) == {rq[r].stages[i] : i \in DOMAIN rq[r].stages}
OwnRecords(r) == {d \in classified_nsfw : d.path.req = r}

AuthDecided(r) ==
    /\ rq[r].stages # <<>>
    /\ rq[r].pc \notin {"refreshKeys", "storeKeys", "stampRefresh", "validateKey"}

\* C2: an authentication attempt with a key that revokeKey returned for,
\* made against a key cache read from the database after the revocation,
\* fails: validateKey returns false and the gate answers 401.
C2_RevokedKeyRejected ==
    \A r \in Reqs :
        (AuthDecided(r) /\ rq[r].afterRevoke) =>
            (~rq[r].valid /\ rq[r].status = 401)

\* C6: a validateKey call made at least refreshRate seconds after the
\* generation of a still active key returns true.
C6_AgedKeyValid ==
    \A r \in Reqs : (AuthDecided(r) /\ rq[r].aged) => rq[r].valid

\* C13: a refreshKeys call reads the active keys from the database exactly
\* when lastRefresh is None or at least refreshRate seconds have passed since
\* lastRefresh; a call that does not read leaves the cached keys and
\* lastRefresh as they are and never writes either.
C13_RefreshExactlyWhenDue ==
    /\ [](\A r \in Reqs :
            rq[r].refreshed = "skipped" => rq[r].pc \notin {"storeKeys", "stampRefresh"})
    /\ [][\A r \in Reqs :
            (rq[r].pc = "refreshKeys" /\ rq'[r].pc # "refreshKeys") =>
                IF lastRefresh = None \/ now - lastRefresh >= refreshRate
                THEN /\ rq'[r].refreshed = "read"
                     /\ rq'[r].snap = {d \in dbKeys : d.active}
                ELSE /\ rq'[r].refreshed = "skipped"
                     /\ rq'[r].snap = {}
                     /\ keys' = keys /\ lastRefresh' = lastRefresh]_vars

\* C13 witness: one call has read the database and stamped lastRefresh, and
\* a later call has returned without reading.
C13_Witness ==
    \E r, q \in Reqs :
        /\ rq[r].refreshed = "read" /\ AuthDecided(r)
        /\ rq[q].refreshed = "skipped" /\ AuthDecided(q)
        /\ lastRefresh # None

\* C14: once every overlapping refreshKeys call has completed, the cached
\* key list equals the active keys as the most recent database read returned
\* them: a refresh that finishes later does not leave an older snapshot in
\* the cache under its newer lastRefresh.
Refreshing(r) == rq[r].pc \in {"storeKeys", "stampRefresh"}
Fields(docs) == {[key |-> d.key, active |-> d.active, created |-> d.created] : d \in docs}

C14_CacheHoldsNewestSnapshot ==
    (Reads # {} /\ \A r \in Reqs : ~Refreshing(r)) =>
        \A r \in Reads :
            rq[r].readSeq = Cardinality(Reads) => Fields(keys) = Fields(rq[r].snap)

\* C19: the cache holds exactly what one database read returned and only
\* documents that are in the database with active = true; validateKey
\* returns true only for a key a database read returned as active, and a
\* key that was never generated is rejected with 401.
Generated(k) == \E d \in dbKeys : d.key = k

C19_OnlyRefreshedActiveKeysValid ==
    /\ Fields(keys) \subseteq Fields(ActiveDocs(dbKeys))
    /\ IF keysFrom = {} THEN keys = {}
       ELSE \E q \in keysFrom : Fields(keys) = Fields(rq[q].snap)
    /\ \A r \in Reqs :
         AuthDecided(r) =>
            /\ rq[r].valid =>
                 \E q \in Reads : \E d \in rq[q].snap :
                     d.key = rq[r].body.key /\ d.active
            /\ ~Generated(rq[r].body.key) =>
                 (~rq[r].valid /\ rq[r].pc = "done" /\ rq[r].status = 401)

\* C19 witness: a generated key was accepted, and a key that was never
\* generated was looked up in a cache that holds a key and was rejected.
C19_Witness ==
    \E r, q \in Reqs :
        /\ rq[r].valid /\ AuthDecided(r)
        /\ rq[q].body.key = Forged /\ rq[q].refreshed # "" /\ rq[q].status = 401
        /\ keys # {}

\* C3: two requests with the same limiting key, arriving less than 1/count
\* apart and being the only requests for that key, are not both passed on
\* and not both rejected: exactly one is processed.
LimiterDecided(r) == rq[r].key_ # NoField /\ rq[r].pc \notin {"limitWrite", "limitCheck"}
LimiterPassed(r) == LimiterDecided(r) /\ rq[r].status # 429

C3_ExactlyOnePasses ==
    \A r1, r2 \in Reqs :
        ( /\ r1 < r2
          /\ LimiterDecided(r1) /\ LimiterDecided(r2)
          /\ rq[r1].key_ = rq[r2].key_
          /\ (rq[r2].arrivedAt - rq[r1].arrivedAt) * count < 1
          /\ \A q \in Reqs \ {r1, r2} : rq[q].key_ # rq[r1].key_ )
        => (LimiterPassed(r1) # LimiterPassed(r2))

\* C11: the limiter state of two routes is independent: a request that read
\* a previous timestamp for its limiting key, and a request rejected with
\* 429, has a request of the same route and the same limiting key that wrote
\* the limiter's map before.
WroteLimiter(q) == rq[q].key_ # NoField /\ rq[q].pc # "limitWrite"

C11_RoutesIndependent ==
    \A r \in Reqs :
        (rq[r].prevRequest # None \/ rq[r].status = 429) =>
            \E q \in Reqs \ {r} :
                /\ WroteLimiter(q)
                /\ rq[q].key_ = rq[r].key_
                /\ rq[q].route = rq[r].route

\* Every request that has run the limiter's write left a timestamp for its
\* limiting key that is no older than its own arrival, passed or rejected.
RecordsEveryRequest ==
    \A r \in Reqs :
        WroteLimiter(r) =>
            requests[rq[r].key_] # None /\ requests[rq[r].key_] >= rq[r].arrivedAt

\* A request that arrived less than 1/count after the previous request
\* recorded for its limiting key is rejected with 429.
BurstRejected ==
    \A r \in Reqs :
        ( /\ LimiterDecided(r)
          /\ rq[r].prevRequest # None
          /\ (rq[r].arrivedAt - rq[r].prevRequest) * count < 1 )
        => (rq[r].pc = "done" /\ rq[r].status = 429)

\* C12: every request that reaches the limiter records the current time for
\* its limiting key whether it is passed or rejected, and of the requests
\* for one key that each arrive less than 1/count after the previous one
\* only the first is passed on.
C12_BurstOnlyFirstPasses == RecordsEveryRequest /\ BurstRejected

\* C17: when the preferred limiting key cannot be taken from the body (the
\* field "ratelimitKey" is missing or is not of a usable type), the limiter
\* uses the remote address as the limiting key, reads and writes the map
\* under it, and no error leaves the limiter.
LimiterRan(r) == "limiter" \in StageSet(r)

C17_FallsBackToRemoteAddr ==
    \A r \in Reqs :
        (LimiterRan(r) /\ rq[r].body.ratelimitKey \notin LimKeys) =>
            /\ rq[r].key_ = rq[r].body.remote
            /\ rq[r].failedAt # "limiter" /\ rq[r].status # 500
            /\ WroteLimiter(r) => requests[rq[r].body.remote] # None

\* The same for a missing field alone.
MissingFieldFallsBack ==
    \A r \in Reqs :
        (LimiterRan(r) /\ rq[r].body.ratelimitKey = NoField) =>
            /\ rq[r].key_ = rq[r].body.remote
            /\ rq[r].failedAt # "limiter" /\ rq[r].status # 500
            /\ WroteLimiter(r) => requests[rq[r].body.remote] # None

\* -------------------------------------------------------- pipeline claims

\* C1: a request without a body, without a usable credential or with a key
\* validateKey rejects is answered 401 by the gate, and neither the limiter
\* nor the validator nor the handler runs for it; every entry of the
\* limiter's map was written by a request the gate let through.
C1_UnauthorizedShortCircuits ==
    /\ \A r \in Reqs :
        (AuthDecided(r) /\ ~rq[r].valid) =>
            /\ rq[r].pc = "done" /\ rq[r].status = 401
            /\ rq[r].stages = <<"auth">>
            /\ rq[r].key_ = NoField /\ rq[r].prevRequest = None
            /\ rq[r].made = {} /\ ~rq[r].cacheRead /\ rq[r].calls = <<>>
    /\ \A k \in LimKeys :
        requests[k] # None => \E r \in Reqs : rq[r].valid /\ rq[r].key_ = k

\* C1 witness: a key the cache does not hold was rejected with 401 while
\* another request went through the limiter.
C1_Witness ==
    \E r, q \in Reqs :
        /\ rq[r].pc = "done" /\ rq[r].status = 401 /\ rq[r].body.key # NoKey
        /\ rq[q].valid /\ requests[rq[r].body.remote] # None

ValidatorRan(r) == "validator" \in StageSet(r)
Accepted(r) == ValidatorRan(r) /\ rq[r].status # 400

\* C9 as stated: the schema check accepts exactly the bodies that hold
\* every required field, whatever other fields they hold.
C9_AcceptsExtraFields ==
    \A r \in Reqs :
        ValidatorRan(r) => (Accepted(r) <=> Required \subseteq rq[r].body.fields)

\* C9 amended: the schema check accepts exactly the bodies that hold every
\* required field and no field besides bytes, contentType and ratelimitKey;
\* a rejected body is answered 400 and the handler does not run.
C9_AcceptsExactlyNamedFields ==
    \A r \in Reqs :
        ValidatorRan(r) =>
            /\ Accepted(r) <=> ( /\ Required \subseteq rq[r].body.fields
                                 /\ rq[r].body.fields \subseteq Required \cup Optional )
            /\ ~Accepted(r) =>
                 /\ rq[r].pc = "done" /\ rq[r].status = 400
                 /\ "handler" \notin StageSet(r)
                 /\ rq[r].made = {} /\ rq[r].calls = <<>>

\* C9 witness: a body with an unnamed field was rejected and a body with
\* the optional field was passed on to the handler.
C9_Witness ==
    \E r, q \in Reqs :
        /\ rq[r].status = 400 /\ Required \subseteq rq[r].body.fields
        /\ "other" \in rq[r].body.fields
        /\ "handler" \in StageSet(q) /\ "ratelimitKey" \in rq[q].body.fields

\* --------------------------------------------------------- handler claims
\* C4: once a request that created a temporary file has completed, none of
\* the files it created exists.
C4_NoTempFilesLeft ==
    \A r \in Reqs :
        (rq[r].pc = "done" /\ rq[r].made # {}) => (rq[r].made \cap files = {})

\* C8: a request whose staging failed (the write or the transcode raised)
\* is answered 500, has neither read nor written the result cache, and has
\* left none of its files on disk.
C8_StagingFailureCleansUp ==
    \A r \in Reqs :
        rq[r].failedAt \in {"stage", "transcode"} =>
            /\ rq[r].status = 500
            /\ ~rq[r].cacheRead /\ OwnRecords(r) = {}
            /\ rq[r].made \cap files = {}

\* C7: a request whose classifier call raised has no document in the result
\* cache, and every document was inserted by a request whose classifier
\* call returned and holds that request's normalised output.
C7_NoInsertAfterClassifierFailure ==
    /\ \A r \in Reqs : rq[r].failedAt = "classify" => OwnRecords(r) = {}
    /\ \A d \in classified_nsfw :
         /\ d.path.req \in Reqs
         /\ Len(rq[d.path.req].calls) = 1
         /\ d.data = Normalize(d.contentType, rq[d.path.req].body.bytes)

\* C7 witness: a request has completed after its classifier call raised.
C7_Witness ==
    \E r \in Reqs :
        /\ rq[r].pc = "done" /\ rq[r].failedAt = "classify" /\ rq[r].status = 500
        /\ Len(rq[r].calls) = 1

SameMedia(r1, r2) ==
    /\ rq[r1].body.bytes = rq[r2].body.bytes
    /\ rq[r1].body.contentType = rq[r2].body.contentType

ClassifiedOk(r) ==
    rq[r].pc = "done" /\ rq[r].status = 200 /\ ~rq[r].fromHash /\ Len(rq[r].calls) = 1

\* C5: when a request was classified successfully and a later request (one
\* that arrived after the first completed) submits the same bytes and
\* content type, the later one never invokes the classifier, and if it is
\* answered 200 it is answered from the cache with the first one's hash.
C5_SecondServedFromCache ==
    \A r1, r2 \in Reqs :
        (r1 \in rq[r2].after /\ SameMedia(r1, r2) /\ ClassifiedOk(r1)) =>
            /\ rq[r2].calls = <<>>
            /\ rq[r2].pc \notin {"classify", "insert"}
            /\ rq[r2].status = 200 =>
                 /\ rq[r2].fromHash
                 /\ rq[r2].response.hash = rq[r1].response.hash

\* C5 witness: the second of two such requests has been answered 200.
C5_Witness ==
    \E r1, r2 \in Reqs :
        /\ r1 \in rq[r2].after /\ SameMedia(r1, r2) /\ ClassifiedOk(r1)
        /\ rq[r2].pc = "done" /\ rq[r2].status = 200 /\ rq[r2].fromHash

GifTranscoded(r) == rq[r].body.contentType = "image/gif" /\ rq[r].oldPath # NoPath
Mp4Path(r) == [req |-> r, ext |-> ".mp4"]

GifClassifiedAsVideo(r) ==
    /\ \A i \in DOMAIN rq[r].calls :
         rq[r].calls[i] = [fn |-> "classify_video", path |-> Mp4Path(r)]
    /\ \A d \in OwnRecords(r) : d.contentType = "video/mp4"

\* C10 as stated: for an image/gif request whose transcode succeeded the
\* classifier is called through classify_video on the .mp4 path, and the
\* response and the stored document carry contentType "video/mp4".
C10_GifRespondsMp4 ==
    \A r \in Reqs :
        GifTranscoded(r) =>
            /\ GifClassifiedAsVideo(r)
            /\ rq[r].status = 200 => rq[r].response.contentType = "video/mp4"

\* C10 amended: as stated for the classifier call and the stored document;
\* the response carries "video/mp4" when the request was classified, and
\* when it was answered from the cache it echoes a stored document of the
\* same hash, whose contentType is the video type of the request that
\* stored it.
C10_GifClassifiedAsMp4 ==
    \A r \in Reqs :
        GifTranscoded(r) =>
            /\ GifClassifiedAsVideo(r)
            /\ (rq[r].status = 200 /\ ~rq[r].fromHash) =>
                 rq[r].response.contentType = "video/mp4"
            /\ (rq[r].status = 200 /\ rq[r].fromHash) =>
                 /\ rq[r].response \in Stored(rq[r].contentHash)
                 /\ StartsWithVideo(rq[r].response.contentType)

\* C10 witness: a transcoded GIF was classified and answered 200, and
\* another transcoded GIF was answered from the cache.
C10_Witness ==
    \E r, q \in Reqs :
        /\ GifTranscoded(r) /\ ClassifiedOk(r)
        /\ GifTranscoded(q) /\ rq[q].pc = "done" /\ rq[q].fromHash

\* C15: when the classifier call of a request raises, the handler catches
\* the exception and answers 500 with the exception's message, the classifier
\* is called once for the request, and when the request has completed none
\* of the files it created (staged or transcoded) exists.
C15_ClassifierFailureHandled ==
    \A r \in Reqs :
        rq[r].raised # "" =>
            /\ rq[r].pc \in {"cleanup", "done"}
            /\ rq[r].status = 500 /\ rq[r].msg = rq[r].raised
            /\ Len(rq[r].calls) = 1
            /\ rq[r].made # {}
            /\ rq[r].pc = "done" => rq[r].made \cap files = {}

\* C15 witness: the classifier raised for a transcoded GIF and the request
\* has completed.
C15_Witness ==
    \E r \in Reqs :
        /\ rq[r].raised # "" /\ rq[r].pc = "done" /\ GifTranscoded(r)
        /\ Cardinality(rq[r].made) > 1

\* C16: no step removes or changes a document of the result cache, a
\* request answered from the cache has inserted nothing, and as long as no
\* two requests overlapped the cache holds at most one document per hash.
NonOverlapping ==
    \A r1, r2 \in Reqs : (r1 < r2 /\ rq[r2].pc # "idle") => r1 \in rq[r2].after

C16_CacheAppendOnlyOncePerHash ==
    /\ [][classified_nsfw \subseteq classified_nsfw']_vars
    /\ [](\A r \in Reqs : rq[r].fromHash => OwnRecords(r) = {})
    /\ [](NonOverlapping =>
            \A d1, d2 \in classified_nsfw : d1.hash = d2.hash => d1 = d2)

\* C16 witness: two requests that did not overlap submitted different bytes
\* of the same hash; the first stored a document, the second was answered
\* from it.
C16_Witness ==
    \E r1, r2 \in Reqs :
        /\ r1 \in rq[r2].after /\ rq[r1].body.bytes # rq[r2].body.bytes
        /\ OwnRecords(r1) # {} /\ rq[r2].pc = "done" /\ rq[r2].fromHash
        /\ Cardinality(classified_nsfw) = 1

\* C18: the stages of a request run in the order auth gate, limiter,
\* validator, handler; a request answered 429 has run neither validator nor
\* handler and one answered 400 has not run the handler; in the handler the
\* hash is taken of a staged file, the cache is read with a hash, the
\* classifier is called only after a cache miss, the files of the request
\* exist until its last step, and no step goes back to an earlier one.
StageOrder == <<"auth", "limiter", "validator", "handler">>

StepOrder ==
    <<"idle", "auth", "refreshKeys", "storeKeys", "stampRefresh", "validateKey",
      "limit", "limitWrite", "limitCheck", "validate", "handler", "transcode",
      "hash", "findStored", "classify", "insert", "cleanup", "done">>

Position(p) == CHOOSE i \in DOMAIN StepOrder : StepOrder[i] = p

InHandler(r) ==
    rq[r].pc \in {"transcode", "hash", "findStored", "classify", "insert", "cleanup"}

C18_StagesInOrder ==
    /\ [](\A r \in Reqs :
            /\ Len(rq[r].stages) <= Len(StageOrder)
            /\ \A i \in DOMAIN rq[r].stages : rq[r].stages[i] = StageOrder[i]
            /\ rq[r].status = 429 =>
                 /\ StageSet(r) \cap {"validator", "handler"} = {}
                 /\ rq[r].pc = "done"
            /\ rq[r].status = 400 => ("handler" \notin StageSet(r) /\ rq[r].pc = "done")
            /\ "handler" \notin StageSet(r) =>
                 (rq[r].made = {} /\ ~rq[r].cacheRead /\ rq[r].calls = <<>>)
            /\ rq[r].contentHash # NoHash => rq[r].made # {}
            /\ rq[r].cacheRead => rq[r].contentHash # NoHash
            /\ rq[r].calls # <<>> => (rq[r].cacheRead /\ ~rq[r].fromHash)
            /\ InHandler(r) => rq[r].made \subseteq files)
    /\ [][\A r \in Reqs :
            /\ Position(rq'[r].pc) >= Position(rq[r].pc)
            /\ rq[r].pc = "cleanup" => rq'[r].pc \in {"cleanup", "done"}]_vars

\* C18 witness: one request ran all four stages, was classified after a
\* cache miss and has deleted its files; another was answered 429 by the
\* limiter.
C18_Witness ==
    \E r, q \in Reqs :
        /\ rq[r].pc = "done" /\ rq[r].stages = StageOrder
        /\ Len(rq[r].calls) = 1 /\ rq[r].status = 200 /\ rq[r].made \cap files = {}
        /\ rq[q].status = 429

\* C20: the gate's step removes "__key__" from the body and nothing else; a
\* request the gate let through presented a key and its body holds no
\* "__key__" when the limiter, the validator and the handler read it; a body
\* that was sent with exactly bytes, contentType, "__key__" and possibly
\* ratelimitKey passes the schema check.
PassedGate(r) == AuthDecided(r) /\ rq[r].valid

C20_KeyRemovedBeforeStages ==
    /\ [](\A r \in Reqs :
            PassedGate(r) =>
                /\ rq[r].body.key # NoKey
                /\ "__key__" \notin rq[r].body.fields
                /\ ( /\ ValidatorRan(r)
                     /\ rq[r].body.fields \ {"ratelimitKey"} = {"bytes", "contentType"} )
                   => (rq[r].status # 400 /\ rq[r].pc # "validate"
                       /\ (rq[r].pc = "handler" \/ "handler" \in StageSet(r))))
    /\ [][\A r \in Reqs :
            (rq[r].pc = "auth" /\ rq'[r].pc # "auth") =>
                rq'[r].body.fields = rq[r].body.fields \ {"__key__"}]_vars

\* C20 witness: a request sent with "__key__", bytes, contentType and
\* ratelimitKey has passed the schema check and entered the handler.
C20_Witness ==
    \E r \in Reqs :
        /\ PassedGate(r) /\ rq[r].body.key \in KeyIds
        /\ rq[r].body.fields = {"bytes", "contentType", "ratelimitKey"}
        /\ rq[r].stages = StageOrder /\ rq[r].made # {}

====
